---- MODULE Spec2Model ----
(***************************************************************************)
(* Model of server_socket.py: the WebSocket bridge of the DataGen agent.   *)
(*                                                                         *)
(* Spec     - the connection handler (handler, lines 115-144), one         *)
(*            coroutine per websocket on a single asyncio event loop.      *)
(* GenSpec  - the tool generate_sample_users (lines 52-88), run on inputs  *)
(*            drawn from bounded sets.                                     *)
(* FileSpec - the tools write_json and read_json (lines 26-48), run on a   *)
(*            small file system.                                           *)
(*                                                                         *)
(* Text is a sequence of one-character strings, so that strip() and        *)
(* lower() are computed character by character.                            *)
(***************************************************************************)
EXTENDS Integers, Sequences, FiniteSets, TLC

\* ------------------------------------------------------------------ bounds
\* Total number of frames the clients send, over all connections.
MaxMsgs == 2
\* Frames a connection may hold queued, received and not yet iterated.
MaxInbox == 2
\* Longest first_names list tried for generate_sample_users.
MaxNames == 3
\* Largest age bound tried for generate_sample_users.
MaxAge == 1

\* The websockets served by the process (keys of CONNECTIONS).
Conns == {"A", "B"}

VARIABLES
    state,        \* websocket.state as the library sees it: NONE, OPEN, CLOSED
    pc,           \* where each handler coroutine stands
    CONNECTIONS,  \* the session store: websocket -> history
    history,      \* handler's local list, the object stored in CONNECTIONS
    inbox,        \* frames received for the websocket, not yet iterated
    outbox,       \* envelopes websocket.send() accepted, in order
    msg,          \* the frame the handler is processing (loop variable msg)
    user_text,    \* local user_text
    ai_msg,       \* local ai_msg (content of the agent's last message)
    ex,           \* the exception caught at line 141
    before,       \* history as it was when the current frame was taken
    received,     \* frames taken by the handler so far, in order
    calls,        \* the messages handed to agent.invoke, call by call
    results,      \* what agent.invoke returned or raised, call by call
    sent,         \* frames sent by all clients so far
    removals,     \* how many times CONNECTIONS.pop removed the websocket's entry
    g_in,         \* generate_sample_users: the arguments
    g_pc,         \* generate_sample_users: position
    g_i,          \* generate_sample_users: loop variable i
    g_users,      \* generate_sample_users: local users
    g_ret,        \* generate_sample_users: the returned dict
    fs,           \* the file system: path -> what is at that path
    f_op,         \* the last tool call on a file: which tool, which path
    f_ret,        \* what that call returned
    f_written     \* per path: the data of the last write_json that succeeded

hvars == <<state, pc, CONNECTIONS, history, inbox, outbox, msg, user_text,
           ai_msg, ex, before, received, calls, results, sent, removals>>
gvars == <<g_in, g_pc, g_i, g_users, g_ret>>
fvars == <<fs, f_op, f_ret, f_written>>
vars == <<hvars, gvars, fvars>>

\* ------------------------------------------------------------------- text
Whitespace == {" ", "\n", "\t"}

RECURSIVE lstrip(_)
lstrip(s) ==
    IF s # <<>> /\ Head(s) \in Whitespace THEN lstrip(Tail(s)) ELSE s

RECURSIVE rstrip(_)
rstrip(s) ==
    IF s # <<>> /\ s[Len(s)] \in Whitespace
    THEN rstrip(SubSeq(s, 1, Len(s) - 1))
    ELSE s

\* str.strip()
strip(s) == rstrip(lstrip(s))

\* ----------------------------------------------------------------- frames
\* An inbound frame, by what json.loads makes of it:
\*   shape "invalid"   - not JSON
\*   shape "nonobject" - JSON, but a list, a string, a number or null
\*   shape "object"    - a JSON object; key tells whether "text" is absent,
\*                       a string (text holds it) or a value of another type
NotJson   == [shape |-> "invalid",   key |-> "absent",    text |-> <<>>]
NonObject == [shape |-> "nonobject", key |-> "absent",    text |-> <<>>]
NoText    == [shape |-> "object",    key |-> "absent",    text |-> <<>>]
NonString == [shape |-> "object",    key |-> "nonstring", text |-> <<>>]
TextMsg(s) == [shape |-> "object",   key |-> "string",    text |-> s]

Texts == { <<>>, <<" ">>, <<" ", "h", "i", " ">>, <<"y", "o">> }

Msgs == {NotJson, NonObject, NoText, NonString} \cup {TextMsg(s) : s \in Texts}

\* A variant of ParseText that forgets .strip().
ParseTextNoStrip(m) ==
    IF m.shape = "invalid"
    THEN [raised |-> <<"JSONDecodeError">>, text |-> <<>>]
    ELSE IF m.shape = "nonobject" \/ m.key = "nonstring"
    THEN [raised |-> <<"AttributeError">>, text |-> <<>>]
    ELSE [raised |-> <<>>, text |-> m.text]

\* Lines 123-124: json.loads(msg), data.get("text", "").strip().
\* Returns the exception raised, or "ok" with the stripped text.
ParseText(m) ==
    IF m.shape = "invalid"
    THEN [raised |-> <<"JSONDecodeError">>, text |-> <<>>]
    ELSE IF m.shape = "nonobject"
    THEN [raised |-> <<"AttributeError">>, text |-> <<>>]
    ELSE IF m.key = "absent"
    THEN [raised |-> <<>>, text |-> strip(<<>>)]
    ELSE IF m.key = "nonstring"
    THEN [raised |-> <<"AttributeError">>, text |-> <<>>]
    ELSE [raised |-> <<>>, text |-> strip(m.text)]

\* --------------------------------------------------------------- messages
HumanMessage(content) == [role |-> "human", content |-> content]
AIMessage(content)    == [role |-> "ai", content |-> content]

\* What the agent may answer, and how its call may fail.
Replies == { <<"r", "1">>, <<"r", "2">> }
AgentError == <<"AgentError">>
ConnectionClosed == <<"ConnectionClosed">>

Envelope(type, text) == [type |-> type, text |-> text]
SystemText == <<"Connected to DataGen agent">>

\* Line 130: the messages handed to agent.invoke.
AgentInput(c) ==
    history[c] \o <<HumanMessage(user_text[c] \o <<"\n", " ", "/no_think">>)>>

\* A variant of Extended that keeps only the newest exchange.
ExtendedKeepsNewest(h, text, reply) == <<HumanMessage(text), AIMessage(reply)>>

\* A variant of Extended that forgets the assistant turn.
ExtendedUserOnly(h, text, reply) == h \o <<HumanMessage(text)>>

\* A variant of Extended that appends the assistant turn first.
ExtendedSwapped(h, text, reply) == h \o <<AIMessage(reply), HumanMessage(text)>>

\* Line 136: history.extend([HumanMessage(content=user_text), ai_msg]).
Extended(h, text, reply) == h \o <<HumanMessage(text), AIMessage(reply)>>

\* The single event loop runs one coroutine at a time and agent.invoke
\* (line 129) is a plain call, not awaited: until it returns, nothing else
\* of the process runs.
LoopFree == \A c \in Conns : pc[c] # "invoking"

\* A variant of Popped that removes nothing.
PoppedNothing(c) == CONNECTIONS

\* Line 144: CONNECTIONS.pop(websocket, None).
Popped(c) == [k \in (DOMAIN CONNECTIONS) \ {c} |-> CONNECTIONS[k]]

\* Lines 143-144: the finally block ends the handler.
Finally(c) ==
    /\ CONNECTIONS' = Popped(c)
    /\ removals' = [removals EXCEPT ![c] = @ + (IF c \in DOMAIN CONNECTIONS THEN 1 ELSE 0)]
    /\ pc' = [pc EXCEPT ![c] = "done"]

\* ------------------------------------------------------- handler: actions
NoEntries == [k \in {} |-> <<>>]

HInit ==
    /\ state = [c \in Conns |-> "NONE"]
    /\ pc = [c \in Conns |-> "idle"]
    /\ CONNECTIONS = NoEntries
    /\ history = [c \in Conns |-> <<>>]
    /\ inbox = [c \in Conns |-> <<>>]
    /\ outbox = [c \in Conns |-> <<>>]
    /\ msg = [c \in Conns |-> NoText]
    /\ user_text = [c \in Conns |-> <<>>]
    /\ ai_msg = [c \in Conns |-> <<>>]
    /\ ex = [c \in Conns |-> <<>>]
    /\ before = [c \in Conns |-> <<>>]
    /\ received = [c \in Conns |-> <<>>]
    /\ calls = [c \in Conns |-> <<>>]
    /\ results = [c \in Conns |-> <<>>]
    /\ sent = 0
    /\ removals = [c \in Conns |-> 0]

\* A variant of HandlerStart that goes to the receive loop without the
\* greeting of line 120.
HandlerStartNoGreeting(c) ==
    /\ pc[c] = "idle"
    /\ LoopFree
    /\ state' = [state EXCEPT ![c] = "OPEN"]
    /\ history' = [history EXCEPT ![c] = <<>>]
    /\ CONNECTIONS' = [k \in (DOMAIN CONNECTIONS) \cup {c} |->
                          IF k = c THEN <<>> ELSE CONNECTIONS[k]]
    /\ pc' = [pc EXCEPT ![c] = "recv"]
    /\ UNCHANGED <<inbox, outbox, msg, user_text, ai_msg, ex, before,
                   received, calls, results, sent, removals>>

\* A variant of Register that rebinds the store to a new dict holding only
\* this connection.
RegisterReplacesStore(c) ==
    /\ history' = [history EXCEPT ![c] = <<>>]
    /\ CONNECTIONS' = [k \in {c} |-> <<>>]

\* Lines 115-118: websockets.serve starts handler(websocket) for an accepted
\* connection; the handler creates its history and registers it.
Register(c) ==
    /\ history' = [history EXCEPT ![c] = <<>>]
    /\ CONNECTIONS' = [k \in (DOMAIN CONNECTIONS) \cup {c} |->
                          IF k = c THEN <<>> ELSE CONNECTIONS[k]]

HandlerStart(c) ==
    /\ pc[c] = "idle"
    /\ LoopFree
    /\ state' = [state EXCEPT ![c] = "OPEN"]
    /\ Register(c)
    /\ pc' = [pc EXCEPT ![c] = "sendsys"]
    /\ UNCHANGED <<inbox, outbox, msg, user_text, ai_msg, ex, before,
                   received, calls, results, sent, removals>>

\* The client sends a frame; the library queues it for the async iterator.
ClientSend(c, m) ==
    /\ state[c] = "OPEN"
    /\ LoopFree
    /\ sent < MaxMsgs
    /\ Len(inbox[c]) < MaxInbox
    /\ inbox' = [inbox EXCEPT ![c] = Append(@, m)]
    /\ sent' = sent + 1
    /\ UNCHANGED <<state, pc, CONNECTIONS, history, outbox, msg, user_text,
                   ai_msg, ex, before, received, calls, results, removals>>

\* The client closes, or the network drops the socket.
ClientClose(c) ==
    /\ state[c] = "OPEN"
    /\ LoopFree
    /\ state' = [state EXCEPT ![c] = "CLOSED"]
    /\ UNCHANGED <<pc, CONNECTIONS, history, inbox, outbox, msg, user_text,
                   ai_msg, ex, before, received, calls, results, sent, removals>>

\* websocket.send(envelope) on an open socket.
Sent(c, env) == outbox' = [outbox EXCEPT ![c] = Append(@, env)]

\* Line 120: send the system envelope; ConnectionClosed is raised outside
\* the inner try and reaches the finally block.
SendSystem(c) ==
    /\ pc[c] = "sendsys"
    /\ LoopFree
    /\ IF state[c] = "OPEN"
       THEN /\ Sent(c, Envelope("system", SystemText))
            /\ pc' = [pc EXCEPT ![c] = "recv"]
            /\ UNCHANGED <<CONNECTIONS, removals>>
       ELSE /\ Finally(c)
            /\ UNCHANGED outbox
    /\ UNCHANGED <<state, history, inbox, msg, user_text, ai_msg, ex, before,
                   received, calls, results, sent>>

\* A variant of Receive that also takes the next frame while the agent
\* envelope of the previous one is still to be sent (a send that is not
\* awaited).
ReceiveWhileSending(c) ==
    /\ pc[c] \in {"recv", "sendagent"}
    /\ LoopFree
    /\ inbox[c] # <<>>
    /\ LET m == Head(inbox[c])
           p == ParseText(m)
       IN /\ inbox' = [inbox EXCEPT ![c] = Tail(@)]
          /\ msg' = [msg EXCEPT ![c] = m]
          /\ received' = [received EXCEPT ![c] = Append(@, m)]
          /\ before' = [before EXCEPT ![c] = history[c]]
          /\ IF p.raised # <<>>
             THEN /\ ex' = [ex EXCEPT ![c] = p.raised]
                  /\ pc' = [pc EXCEPT ![c] = "senderror"]
                  /\ UNCHANGED <<user_text, calls>>
             ELSE /\ user_text' = [user_text EXCEPT ![c] = p.text]
                  /\ UNCHANGED ex
                  /\ IF p.text = <<>>
                     THEN /\ pc' = [pc EXCEPT ![c] = "recv"]
                          /\ UNCHANGED calls
                     ELSE /\ pc' = [pc EXCEPT ![c] = "invoking"]
                          /\ calls' = [calls EXCEPT ![c] =
                                 Append(@, history[c] \o
                                     <<HumanMessage(p.text \o <<"\n", " ", "/no_think">>)>>)]
    /\ UNCHANGED <<state, CONNECTIONS, history, outbox, ai_msg, results, sent,
                   removals>>

\* Lines 121-129: the iterator yields the next queued frame (also after the
\* socket closed, while frames are queued); parse it, skip it, or call the
\* agent.
Receive(c) ==
    /\ pc[c] = "recv"
    /\ LoopFree
    /\ inbox[c] # <<>>
    /\ LET m == Head(inbox[c])
           p == ParseText(m)
       IN /\ inbox' = [inbox EXCEPT ![c] = Tail(@)]
          /\ msg' = [msg EXCEPT ![c] = m]
          /\ received' = [received EXCEPT ![c] = Append(@, m)]
          /\ before' = [before EXCEPT ![c] = history[c]]
          /\ IF p.raised # <<>>
             THEN /\ ex' = [ex EXCEPT ![c] = p.raised]
                  /\ pc' = [pc EXCEPT ![c] = "senderror"]
                  /\ UNCHANGED <<user_text, calls>>
             ELSE /\ user_text' = [user_text EXCEPT ![c] = p.text]
                  /\ UNCHANGED ex
                  /\ IF p.text = <<>>
                     THEN UNCHANGED <<pc, calls>>
                     ELSE /\ pc' = [pc EXCEPT ![c] = "invoking"]
                          /\ calls' = [calls EXCEPT ![c] =
                                 Append(@, history[c] \o
                                     <<HumanMessage(p.text \o <<"\n", " ", "/no_think">>)>>)]
    /\ UNCHANGED <<state, CONNECTIONS, history, outbox, ai_msg, results, sent,
                   removals>>

\* Lines 129-136: agent.invoke returns; the two turns are appended to the
\* list that CONNECTIONS holds.
InvokeReturn(c, r) ==
    /\ pc[c] = "invoking"
    /\ ai_msg' = [ai_msg EXCEPT ![c] = r]
    /\ history' = [history EXCEPT ![c] = Extended(@, user_text[c], r)]
    /\ CONNECTIONS' = [k \in DOMAIN CONNECTIONS |->
                          IF k = c THEN Extended(history[c], user_text[c], r)
                          ELSE CONNECTIONS[k]]
    /\ results' = [results EXCEPT ![c] = Append(@, r)]
    /\ pc' = [pc EXCEPT ![c] = "sendagent"]
    /\ UNCHANGED <<state, inbox, outbox, msg, user_text, ex, before, received,
                   calls, sent, removals>>

\* A variant of InvokeRaise that calls the agent a second time after a
\* first failure.
InvokeRaiseRetry(c) ==
    /\ pc[c] = "invoking"
    /\ results' = [results EXCEPT ![c] = Append(@, AgentError)]
    /\ IF results[c] = <<>> \/ results[c][Len(results[c])] # AgentError
       THEN /\ calls' = [calls EXCEPT ![c] = Append(@, AgentInput(c))]
            /\ UNCHANGED <<pc, ex>>
       ELSE /\ ex' = [ex EXCEPT ![c] = AgentError]
            /\ pc' = [pc EXCEPT ![c] = "senderror"]
            /\ UNCHANGED calls
    /\ UNCHANGED <<state, CONNECTIONS, history, inbox, outbox, msg, user_text,
                   ai_msg, before, received, sent, removals>>

\* A variant of InvokeRaise in which the user turn was appended before the
\* agent was called.
InvokeRaiseAppended(c) ==
    /\ pc[c] = "invoking"
    /\ ex' = [ex EXCEPT ![c] = AgentError]
    /\ results' = [results EXCEPT ![c] = Append(@, AgentError)]
    /\ history' = [history EXCEPT ![c] = Append(@, HumanMessage(user_text[c]))]
    /\ CONNECTIONS' = [k \in DOMAIN CONNECTIONS |->
                          IF k = c THEN Append(history[c], HumanMessage(user_text[c]))
                          ELSE CONNECTIONS[k]]
    /\ pc' = [pc EXCEPT ![c] = "senderror"]
    /\ UNCHANGED <<state, inbox, outbox, msg, user_text, ai_msg, before,
                   received, calls, sent, removals>>

\* Lines 129, 141: agent.invoke raises; the exception is caught.
InvokeRaise(c) ==
    /\ pc[c] = "invoking"
    /\ ex' = [ex EXCEPT ![c] = AgentError]
    /\ results' = [results EXCEPT ![c] = Append(@, AgentError)]
    /\ pc' = [pc EXCEPT ![c] = "senderror"]
    /\ UNCHANGED <<state, CONNECTIONS, history, inbox, outbox, msg, user_text,
                   ai_msg, before, received, calls, sent, removals>>

\* Line 139: send the agent envelope; a failure is caught at line 141.
SendAgent(c) ==
    /\ pc[c] = "sendagent"
    /\ LoopFree
    /\ IF state[c] = "OPEN"
       THEN /\ Sent(c, Envelope("agent", ai_msg[c]))
            /\ pc' = [pc EXCEPT ![c] = "recv"]
            /\ UNCHANGED ex
       ELSE /\ ex' = [ex EXCEPT ![c] = ConnectionClosed]
            /\ pc' = [pc EXCEPT ![c] = "senderror"]
            /\ UNCHANGED outbox
    /\ UNCHANGED <<state, CONNECTIONS, history, inbox, msg, user_text, ai_msg,
                   before, received, calls, results, sent, removals>>

\* A variant of SendError whose cleanup is not in a finally block: an
\* exception of the error send ends the handler without the pop.
SendErrorNoFinally(c) ==
    /\ pc[c] = "senderror"
    /\ LoopFree
    /\ IF state[c] = "OPEN"
       THEN /\ outbox' = [outbox EXCEPT ![c] =
                             Append(@, Envelope("error", <<"Server error: ">> \o ex[c]))]
            /\ pc' = [pc EXCEPT ![c] = "recv"]
       ELSE /\ pc' = [pc EXCEPT ![c] = "done"]
            /\ UNCHANGED outbox
    /\ UNCHANGED <<state, CONNECTIONS, removals, history, inbox, msg, user_text,
                   ai_msg, ex, before, received, calls, results, sent>>

\* Line 142: send the error envelope; a failure here escapes the handler
\* through the finally block.
SendError(c) ==
    /\ pc[c] = "senderror"
    /\ LoopFree
    /\ IF state[c] = "OPEN"
       THEN /\ Sent(c, Envelope("error", <<"Server error: ">> \o ex[c]))
            /\ pc' = [pc EXCEPT ![c] = "recv"]
            /\ UNCHANGED <<CONNECTIONS, removals>>
       ELSE /\ Finally(c)
            /\ UNCHANGED outbox
    /\ UNCHANGED <<state, history, inbox, msg, user_text, ai_msg, ex, before,
                   received, calls, results, sent>>

\* Lines 121, 143-144: the socket is closed and no frame is queued; the
\* iteration ends and the finally block runs.
RecvClosed(c) ==
    /\ pc[c] = "recv"
    /\ LoopFree
    /\ inbox[c] = <<>>
    /\ state[c] = "CLOSED"
    /\ Finally(c)
    /\ UNCHANGED <<state, history, inbox, outbox, msg, user_text, ai_msg, ex,
                   before, received, calls, results, sent>>

\* -------------------------------------------------- generate_sample_users
UpperCase == <<"A", "B", "C", "D", "E", "F", "G", "H", "I", "J", "K", "L", "M",
               "N", "O", "P", "Q", "R", "S", "T", "U", "V", "W", "X", "Y", "Z">>
LowerCase == <<"a", "b", "c", "d", "e", "f", "g", "h", "i", "j", "k", "l", "m",
               "n", "o", "p", "q", "r", "s", "t", "u", "v", "w", "x", "y", "z">>

lower_char(ch) ==
    IF \E k \in 1..26 : UpperCase[k] = ch
    THEN LowerCase[CHOOSE k \in 1..26 : UpperCase[k] = ch]
    ELSE ch

\* str.lower()
lower(s) == [k \in 1..Len(s) |-> lower_char(s[k])]

DigitChars == <<"0", "1", "2", "3", "4", "5", "6", "7", "8", "9">>

\* str(n) of a three-digit number, as the f-string of line 83 formats it.
str3(n) == <<DigitChars[(n \div 100) + 1], DigitChars[((n \div 10) % 10) + 1],
             DigitChars[(n % 10) + 1]>>

\* Line 83: random.randint(100, 999); line 85: random.randint(1, 365).
SuffixLo == 100
SuffixHi == 999
DaysLo == 1
DaysHi == 365

\* The values of the random draws that are tried: both ends of each range.
Suffixes == {SuffixLo, SuffixHi}
Days == {DaysLo, DaysHi}

\* The k-th first name tried: "Al", "BOl", "All", "BOll", ...
FirstName(k) ==
    (IF k % 2 = 1 THEN <<"A">> ELSE <<"B", "O">>) \o [j \in 1..((k + 1) \div 2) |-> "l"]
AllLast == << <<"X", "u">>, <<"Y", "E", "e">> >>
AllDomains == << <<"d", ".", "C", "o">>, <<"e", ".", "i", "o">> >>

GenInputs ==
    { [first_names |-> [k \in 1..n |-> FirstName(k)],
       last_names |-> SubSeq(AllLast, 1, l),
       domains |-> SubSeq(AllDomains, 1, d),
       min_age |-> lo, max_age |-> hi] :
      n \in 0..MaxNames, l \in 0..Len(AllLast), d \in 0..Len(AllDomains),
      lo \in (-1)..MaxAge, hi \in (-1)..MaxAge }

NotReturned == [pending |-> TRUE]

\* A variant of ValidationError without the check of lines 68-69.
ValidationErrorNoNegative(in) ==
    IF in.first_names = <<>> THEN <<"first_names list cannot be empty">>
    ELSE IF in.last_names = <<>> THEN <<"last_names list cannot be empty">>
    ELSE IF in.domains = <<>> THEN <<"domains list cannot be empty">>
    ELSE IF in.min_age > in.max_age
    THEN <<"min_age (", ToString(in.min_age), ") cannot be greater than max_age (",
           ToString(in.max_age), ")">>
    ELSE <<>>

\* Lines 60-69: the precondition checks, in order; <<>> when all pass.
ValidationError(in) ==
    IF in.first_names = <<>> THEN <<"first_names list cannot be empty">>
    ELSE IF in.last_names = <<>> THEN <<"last_names list cannot be empty">>
    ELSE IF in.domains = <<>> THEN <<"domains list cannot be empty">>
    ELSE IF in.min_age > in.max_age
    THEN <<"min_age (", ToString(in.min_age), ") cannot be greater than max_age (",
           ToString(in.max_age), ")">>
    ELSE IF in.min_age < 0 \/ in.max_age < 0 THEN <<"ages must be non-negative">>
    ELSE <<>>

\* A variant of User that lowercases the whole address, domain included.
UserLowerDomain(in, i, suffix, age, days) ==
    LET first == in.first_names[i + 1]
        last == in.last_names[(i % Len(in.last_names)) + 1]
        domain == in.domains[(i % Len(in.domains)) + 1]
    IN [id |-> i + 1,
        firstName |-> first,
        lastName |-> last,
        email |-> lower(first \o <<".">> \o last \o <<"@">> \o domain),
        username |-> lower(first) \o str3(suffix),
        age |-> age,
        registeredAt |-> [daysBeforeNow |-> days]]

\* Lines 74-86: the record built in iteration i (0-based), given the draws.
User(in, i, suffix, age, days) ==
    LET first == in.first_names[i + 1]
        last == in.last_names[(i % Len(in.last_names)) + 1]
        domain == in.domains[(i % Len(in.domains)) + 1]
    IN [id |-> i + 1,
        firstName |-> first,
        lastName |-> last,
        email |-> lower(first) \o <<".">> \o lower(last) \o <<"@">> \o domain,
        username |-> lower(first) \o str3(suffix),
        age |-> age,
        registeredAt |-> [daysBeforeNow |-> days]]

GInit ==
    /\ g_in \in GenInputs
    /\ g_pc = "validate"
    /\ g_i = 0
    /\ g_users = <<>>
    /\ g_ret = NotReturned

\* Lines 60-72.
GenValidate ==
    /\ g_pc = "validate"
    /\ IF ValidationError(g_in) # <<>>
       THEN /\ g_ret' = [error |-> ValidationError(g_in)]
            /\ g_pc' = "returned"
       ELSE /\ g_pc' = "loop"
            /\ UNCHANGED g_ret
    /\ g_users' = <<>>
    /\ g_i' = 0
    /\ UNCHANGED g_in

\* Lines 73-87: one iteration of for i in range(count).
GenIterate ==
    /\ g_pc = "loop"
    /\ g_i < Len(g_in.first_names)
    /\ \E suffix \in Suffixes, age \in g_in.min_age..g_in.max_age, days \in Days :
          g_users' = Append(g_users, User(g_in, g_i, suffix, age, days))
    /\ g_i' = g_i + 1
    /\ UNCHANGED <<g_in, g_pc, g_ret>>

\* Line 88.
GenReturn ==
    /\ g_pc = "loop"
    /\ g_i >= Len(g_in.first_names)
    /\ g_ret' = [users |-> g_users, count |-> Len(g_users)]
    /\ g_pc' = "returned"
    /\ UNCHANGED <<g_in, g_i, g_users>>

\* -------------------------------------------------------------- JSON text
\* JSON data.  A dict is the sequence of its <<key, value>> pairs in
\* insertion order, a string a sequence of characters; "<e9>" stands for the
\* one non-ASCII character that is tried (U+00E9).
JNull == [t |-> "null", v |-> <<>>]
JBool(b) == [t |-> "bool", v |-> <<b>>]
JNum(n) == [t |-> "num", v |-> <<n>>]
JStr(s) == [t |-> "str", v |-> s]
JList(xs) == [t |-> "list", v |-> xs]
JDict(kvs) == [t |-> "dict", v |-> kvs]

NonAscii == {"<e9>"}
UEscape == <<"u", "0", "0", "e", "9">>

\* json.dumps of one character of a string.
EscapeChar(c, ensure_ascii) ==
    IF c = "\"" THEN <<"\\", "\"">>
    ELSE IF c = "\\" THEN <<"\\", "\\">>
    ELSE IF c = "\n" THEN <<"\\", "n">>
    ELSE IF c \in NonAscii /\ ensure_ascii THEN <<"\\">> \o UEscape
    ELSE <<c>>

RECURSIVE EscapeText(_, _)
EscapeText(s, ensure_ascii) ==
    IF s = <<>> THEN <<>>
    ELSE EscapeChar(Head(s), ensure_ascii) \o EscapeText(Tail(s), ensure_ascii)

Quoted(s, ensure_ascii) == <<"\"">> \o EscapeText(s, ensure_ascii) \o <<"\"">>

RECURSIVE NatChars(_)
NatChars(n) ==
    IF n < 10 THEN <<DigitChars[n + 1]>>
    ELSE NatChars(n \div 10) \o <<DigitChars[(n % 10) + 1]>>

IntChars(n) == IF n < 0 THEN <<"-">> \o NatChars(-n) ELSE NatChars(n)

\* indent < 0 stands for indent=None.
NewlineIndent(indent, level) ==
    IF indent < 0 THEN <<>> ELSE <<"\n">> \o [k \in 1..(indent * level) |-> " "]

ItemSep(indent, level) ==
    IF indent < 0 THEN <<",", " ">> ELSE <<",">> \o NewlineIndent(indent, level)

\* json.dumps(x, indent=indent, ensure_ascii=ensure_ascii), at nesting level.
RECURSIVE Dumps(_, _, _, _)
RECURSIVE DumpItems(_, _, _, _, _)
RECURSIVE DumpMembers(_, _, _, _, _)
Dumps(x, indent, ensure_ascii, level) ==
    CASE x.t = "null" -> <<"n", "u", "l", "l">>
      [] x.t = "bool" -> IF x.v[1] THEN <<"t", "r", "u", "e">>
                         ELSE <<"f", "a", "l", "s", "e">>
      [] x.t = "num" -> IntChars(x.v[1])
      [] x.t = "str" -> Quoted(x.v, ensure_ascii)
      [] x.t = "list" ->
            IF x.v = <<>> THEN <<"[", "]">>
            ELSE <<"[">> \o NewlineIndent(indent, level + 1)
                 \o DumpItems(x.v, 1, indent, ensure_ascii, level + 1)
                 \o NewlineIndent(indent, level) \o <<"]">>
      [] x.t = "dict" ->
            IF x.v = <<>> THEN <<"{", "}">>
            ELSE <<"{">> \o NewlineIndent(indent, level + 1)
                 \o DumpMembers(x.v, 1, indent, ensure_ascii, level + 1)
                 \o NewlineIndent(indent, level) \o <<"}">>

DumpItems(xs, k, indent, ensure_ascii, level) ==
    Dumps(xs[k], indent, ensure_ascii, level)
    \o (IF k = Len(xs) THEN <<>>
        ELSE ItemSep(indent, level) \o DumpItems(xs, k + 1, indent, ensure_ascii, level))

DumpMembers(kvs, k, indent, ensure_ascii, level) ==
    Quoted(kvs[k][1], ensure_ascii) \o <<":", " ">>
    \o Dumps(kvs[k][2], indent, ensure_ascii, level)
    \o (IF k = Len(kvs) THEN <<>>
        ELSE ItemSep(indent, level) \o DumpMembers(kvs, k + 1, indent, ensure_ascii, level))

\* json.loads: a recursive-descent parse of the characters s from index i.
\* The result tells whether a value was read, the value, and the index
\* after it.  (Fractions, exponents and \u escapes of other characters do
\* not occur in the texts tried.)
ParseFail(i) == [ok |-> FALSE, v |-> JNull, i |-> i]
ParseOk(v, i) == [ok |-> TRUE, v |-> v, i |-> i]

JsonSpace == {" ", "\n", "\t", "\r"}

RECURSIVE SkipWs(_, _)
SkipWs(s, i) == IF i <= Len(s) /\ s[i] \in JsonSpace THEN SkipWs(s, i + 1) ELSE i

HasAt(s, i, w) == i + Len(w) - 1 <= Len(s) /\ SubSeq(s, i, i + Len(w) - 1) = w

IsDigit(c) == \E d \in 0..9 : DigitChars[d + 1] = c
DigitValue(c) == CHOOSE d \in 0..9 : DigitChars[d + 1] = c

\* The string whose opening quote precedes index i.
RECURSIVE ScanString(_, _, _)
ScanString(s, i, acc) ==
    IF i > Len(s) THEN ParseFail(i)
    ELSE IF s[i] = "\"" THEN ParseOk(JStr(acc), i + 1)
    ELSE IF s[i] \in {"\n", "\t", "\r"} THEN ParseFail(i)
    ELSE IF s[i] = "\\"
    THEN IF i + 1 > Len(s) THEN ParseFail(i)
         ELSE IF s[i + 1] \in {"\"", "\\", "/"}
         THEN ScanString(s, i + 2, Append(acc, s[i + 1]))
         ELSE IF s[i + 1] = "n" THEN ScanString(s, i + 2, Append(acc, "\n"))
         ELSE IF HasAt(s, i + 1, UEscape) THEN ScanString(s, i + 6, Append(acc, "<e9>"))
         ELSE ParseFail(i)
    ELSE ScanString(s, i + 1, Append(acc, s[i]))

RECURSIVE ScanDigits(_, _, _)
ScanDigits(s, i, acc) ==
    IF i <= Len(s) /\ IsDigit(s[i])
    THEN ScanDigits(s, i + 1, acc * 10 + DigitValue(s[i]))
    ELSE [n |-> acc, i |-> i]

ScanNumber(s, i) ==
    LET neg == s[i] = "-"
        j == IF neg THEN i + 1 ELSE i
    IN IF j > Len(s) \/ ~IsDigit(s[j]) THEN ParseFail(i)
       ELSE IF s[j] = "0" THEN ParseOk(JNum(0), j + 1)
       ELSE LET d == ScanDigits(s, j, 0)
            IN ParseOk(JNum(IF neg THEN -d.n ELSE d.n), d.i)

\* dict[k] = v while a JSON object is read: a repeated key keeps its place
\* and takes the later value.
Put(kvs, k, v) ==
    IF \E n \in DOMAIN kvs : kvs[n][1] = k
    THEN [n \in DOMAIN kvs |-> IF kvs[n][1] = k THEN <<k, v>> ELSE kvs[n]]
    ELSE Append(kvs, <<k, v>>)

RECURSIVE ParseValue(_, _)
RECURSIVE ParseItems(_, _, _)
RECURSIVE ParseMembers(_, _, _)
ParseValue(s, i0) ==
    LET i == SkipWs(s, i0)
    IN IF i > Len(s) THEN ParseFail(i)
       ELSE IF s[i] = "\"" THEN ScanString(s, i + 1, <<>>)
       ELSE IF s[i] = "{"
       THEN LET j == SkipWs(s, i + 1)
            IN IF j <= Len(s) /\ s[j] = "}" THEN ParseOk(JDict(<<>>), j + 1)
               ELSE ParseMembers(s, j, <<>>)
       ELSE IF s[i] = "["
       THEN LET j == SkipWs(s, i + 1)
            IN IF j <= Len(s) /\ s[j] = "]" THEN ParseOk(JList(<<>>), j + 1)
               ELSE ParseItems(s, j, <<>>)
       ELSE IF HasAt(s, i, <<"n", "u", "l", "l">>) THEN ParseOk(JNull, i + 4)
       ELSE IF HasAt(s, i, <<"t", "r", "u", "e">>) THEN ParseOk(JBool(TRUE), i + 4)
       ELSE IF HasAt(s, i, <<"f", "a", "l", "s", "e">>) THEN ParseOk(JBool(FALSE), i + 5)
       ELSE IF s[i] = "-" \/ IsDigit(s[i]) THEN ScanNumber(s, i)
       ELSE ParseFail(i)

ParseItems(s, i, acc) ==
    LET r == ParseValue(s, i)
    IN IF ~r.ok THEN r
       ELSE LET j == SkipWs(s, r.i)
            IN IF j > Len(s) THEN ParseFail(j)
               ELSE IF s[j] = "]" THEN ParseOk(JList(Append(acc, r.v)), j + 1)
               ELSE IF s[j] = "," THEN ParseItems(s, j + 1, Append(acc, r.v))
               ELSE ParseFail(j)

ParseMembers(s, i, acc) ==
    LET i1 == SkipWs(s, i)
    IN IF i1 > Len(s) \/ s[i1] # "\"" THEN ParseFail(i1)
       ELSE LET k == ScanString(s, i1 + 1, <<>>)
            IN IF ~k.ok THEN k
               ELSE LET j == SkipWs(s, k.i)
                    IN IF j > Len(s) \/ s[j] # ":" THEN ParseFail(j)
                       ELSE LET r == ParseValue(s, j + 1)
                            IN IF ~r.ok THEN r
                               ELSE LET j2 == SkipWs(s, r.i)
                                        acc2 == Put(acc, k.v.v, r.v)
                                    IN IF j2 > Len(s) THEN ParseFail(j2)
                                       ELSE IF s[j2] = "}" THEN ParseOk(JDict(acc2), j2 + 1)
                                       ELSE IF s[j2] = ","
                                       THEN ParseMembers(s, j2 + 1, acc2)
                                       ELSE ParseFail(j2)

\* json.loads(s): one value, then nothing but whitespace.
Loads(s) ==
    LET r == ParseValue(s, 1)
    IN IF ~r.ok THEN r
       ELSE IF SkipWs(s, r.i) <= Len(s) THEN ParseFail(SkipWs(s, r.i))
       ELSE r

\* ------------------------------------------------- write_json, read_json
Paths == { <<"p">>, <<"q">> }

\* What is at a path: nothing, a directory (open() fails on it either way),
\* or a file with its content.  "<ff>" stands for a byte that is not UTF-8.
Absent == [kind |-> "absent", content |-> <<>>]
Directory == [kind |-> "dir", content |-> <<>>]
File(content) == [kind |-> "file", content |-> content]
BadByte == "<ff>"
Decodable(content) == \A k \in DOMAIN content : content[k] # BadByte

\* The data the agent may ask to write.
DocEmpty == JDict(<<>>)
DocFlat == JDict(<< << <<"n">>, JNum(-12) >>, << <<"o", "k">>, JBool(TRUE) >> >>)
DocRich ==
    JDict(<< << <<"s">>, JStr(<<"a", "\"", "\\", "<e9>", "\n", " ">>) >>,
             << <<"l">>, JList(<<JNull, JList(<<>>), JNum(70),
                                 JDict(<< << <<"k", " ">>, JBool(FALSE) >> >>)>>) >> >>)
Docs == {DocEmpty, DocFlat, DocRich}

\* Content found in files that write_json did not write.
ForeignContents ==
    { <<>>,
      <<"h", "i">>,
      <<"{", "\"", "a", "\"", ":">>,
      <<"{", "}", " ", "x">>,
      <<"[", "1", ",", " ", "2", "]">>,
      <<"\"", "E", "r", "r", "o", "r", "\"">>,
      <<"{", "\"", "a", "\"", ":", "1", ",", "\"", "a", "\"", ":", "2", "}", "\n">>,
      <<BadByte, "{", "}">> }

InitialFiles == {Absent, Directory} \cup {File(x) : x \in ForeignContents}

\* The texts of the return values.
WroteHead == 
    <<"S", "u", "c", "c", "e", "s", "s", "f", "u", "l", "l", "y", " ", "w",
        "r", "o", "t", "e", " ", "J", "S", "O", "N", " ", "d", "a", "t",
        "a", " ", "t", "o", " ", "'">>
WroteMid == <<"'", " ", "(">>
WroteTail == <<" ", "c", "h", "a", "r", "a", "c", "t", "e", "r", "s", ")", ".">>
WriteErrorHead == 
    <<"E", "r", "r", "o", "r", " ", "w", "r", "i", "t", "i", "n", "g", " ",
        "J", "S", "O", "N", ":", " ">>
NotFoundHead == <<"E", "r", "r", "o", "r", ":", " ", "F", "i", "l", "e", " ", "'">>
NotFoundTail == <<"'", " ", "n", "o", "t", " ", "f", "o", "u", "n", "d", ".">>
InvalidJsonHead == 
    <<"E", "r", "r", "o", "r", ":", " ", "I", "n", "v", "a", "l", "i", "d",
        " ", "J", "S", "O", "N", " ", "i", "n", " ", "f", "i", "l", "e",
        " ", "-", " ">>
ReadErrorHead == 
    <<"E", "r", "r", "o", "r", " ", "r", "e", "a", "d", "i", "n", "g", " ",
        "J", "S", "O", "N", ":", " ">>

\* str(e) of the exceptions.
IsADirectoryText(filepath) ==
    
    <<"[", "E", "r", "r", "n", "o", " ", "2", "1", "]", " ", "I", "s", " ",
        "a", " ", "d", "i", "r", "e", "c", "t", "o", "r", "y", ":", " ", "'">> \o filepath \o <<"'">>
UnicodeDecodeText == 
    <<"'", "u", "t", "f", "-", "8", "'", " ", "c", "o", "d", "e", "c", " ",
        "c", "a", "n", "'", "t", " ", "d", "e", "c", "o", "d", "e", " ",
        "b", "y", "t", "e", " ", "0", "x", "f", "f">>
JSONDecodeText(r) ==
    
    <<"E", "x", "p", "e", "c", "t", "i", "n", "g", " ", "v", "a", "l", "u",
        "e", ":", " ", "(", "c", "h", "a", "r", " ">> \o NatChars(r.i - 1) \o <<")">>

\* A variant of Opened for a file opened with mode "a".
OpenedForAppend(f) == f.content

\* Line 29: open(filepath, "w") truncates the file.
Opened(f) == <<>>

\* Lines 28-33.  The outcome of write_json(filepath, data): the file system
\* afterwards and the string returned.
write_json(filepath, data) ==
    IF fs[filepath].kind = "dir"
    THEN [fs |-> fs,
          ret |-> WriteErrorHead \o IsADirectoryText(filepath)]
    ELSE [fs |-> [fs EXCEPT ![filepath] =
                     File(Opened(fs[filepath]) \o Dumps(data, 2, FALSE, 0))],
          ret |-> WroteHead \o filepath \o WroteMid
                  \o IntChars(Len(Dumps(data, -1, TRUE, 0))) \o WroteTail]

\* Lines 39-48.  The string read_json(filepath) returns.
read_json(filepath) ==
    LET f == fs[filepath]
    IN IF f.kind = "absent" THEN NotFoundHead \o filepath \o NotFoundTail
       ELSE IF f.kind = "dir" THEN ReadErrorHead \o IsADirectoryText(filepath)
       ELSE IF ~Decodable(f.content) THEN ReadErrorHead \o UnicodeDecodeText
       ELSE IF ~Loads(f.content).ok
       THEN InvalidJsonHead \o JSONDecodeText(Loads(f.content))
       ELSE Dumps(Loads(f.content).v, 2, TRUE, 0)

NeverWritten == [set |-> FALSE, data |-> JNull, old |-> Absent]

FInit ==
    /\ fs \in [Paths -> InitialFiles]
    /\ f_op = [tool |-> "none", path |-> <<>>]
    /\ f_ret = <<>>
    /\ f_written = [p \in Paths |-> NeverWritten]

FIdle ==
    /\ fs = [p \in Paths |-> Absent]
    /\ f_op = [tool |-> "none", path |-> <<>>]
    /\ f_ret = <<>>
    /\ f_written = [p \in Paths |-> NeverWritten]

\* The agent calls write_json(filepath, data).
WriteJson(filepath, data) ==
    /\ fs' = write_json(filepath, data).fs
    /\ f_ret' = write_json(filepath, data).ret
    /\ f_op' = [tool |-> "write_json", path |-> filepath]
    /\ f_written' = IF fs[filepath].kind = "dir" THEN f_written
                    ELSE [f_written EXCEPT ![filepath] =
                             [set |-> TRUE, data |-> data, old |-> fs[filepath]]]

\* The agent calls read_json(filepath).
ReadJson(filepath) ==
    /\ f_ret' = read_json(filepath)
    /\ f_op' = [tool |-> "read_json", path |-> filepath]
    /\ UNCHANGED <<fs, f_written>>

\* ---------------------------------------------------------- specification
GIdle ==
    /\ g_in = [first_names |-> <<>>, last_names |-> <<>>, domains |-> <<>>,
               min_age |-> 0, max_age |-> 0]
    /\ g_pc = "idle"
    /\ g_i = 0
    /\ g_users = <<>>
    /\ g_ret = NotReturned

Init == HInit /\ GIdle /\ FIdle

Next ==
    \/ \E c \in Conns : HandlerStart(c) /\ UNCHANGED <<gvars, fvars>>
    \/ \E c \in Conns, m \in Msgs : ClientSend(c, m) /\ UNCHANGED <<gvars, fvars>>
    \/ \E c \in Conns : ClientClose(c) /\ UNCHANGED <<gvars, fvars>>
    \/ \E c \in Conns : SendSystem(c) /\ UNCHANGED <<gvars, fvars>>
    \/ \E c \in Conns : Receive(c) /\ UNCHANGED <<gvars, fvars>>
    \/ \E c \in Conns, r \in Replies : InvokeReturn(c, r) /\ UNCHANGED <<gvars, fvars>>
    \/ \E c \in Conns : InvokeRaise(c) /\ UNCHANGED <<gvars, fvars>>
    \/ \E c \in Conns : SendAgent(c) /\ UNCHANGED <<gvars, fvars>>
    \/ \E c \in Conns : SendError(c) /\ UNCHANGED <<gvars, fvars>>
    \/ \E c \in Conns : RecvClosed(c) /\ UNCHANGED <<gvars, fvars>>

Spec == Init /\ [][Next]_vars

GenInit == HInit /\ GInit /\ FIdle

GenNext ==
    \/ GenValidate /\ UNCHANGED <<hvars, fvars>>
    \/ GenIterate /\ UNCHANGED <<hvars, fvars>>
    \/ GenReturn /\ UNCHANGED <<hvars, fvars>>

GenSpec == GenInit /\ [][GenNext]_vars

FileInit == HInit /\ GIdle /\ FInit

FileNext ==
    \/ \E p \in Paths, d \in Docs : WriteJson(p, d) /\ UNCHANGED <<hvars, gvars>>
    \/ \E p \in Paths : ReadJson(p) /\ UNCHANGED <<hvars, gvars>>

FileSpec == FileInit /\ [][FileNext]_vars


\* ================================================================= claims
\* Classes of inbound frames.
Malformed(m) == m.shape # "object" \/ m.key = "nonstring"
EmptyText(m) == m.shape = "object" /\ (m.key = "absent" \/ (m.key = "string" /\ strip(m.text) = <<>>))
Valid(m) == m.shape = "object" /\ m.key = "string" /\ strip(m.text) # <<>>

Last(s) == s[Len(s)]
CountType(c, t) == Cardinality({k \in DOMAIN outbox[c] : outbox[c][k].type = t})
Running(c) == pc[c] \in {"sendsys", "recv", "invoking", "sendagent", "senderror"}
Processing(c) == pc[c] \in {"invoking", "sendagent", "senderror"}
ErrorEnvelope(e) == Envelope("error", <<"Server error: ">> \o e)

\* ---- C1 ----------------------------------------------------------------
\* C1 as stated: in every reachable state, CONNECTIONS holds an entry for a
\* connection if and only if that connection is open.
C1_EntryIffOpen ==
    \A c \in Conns : (c \in DOMAIN CONNECTIONS) <=> (state[c] = "OPEN")

\* C1, amended: CONNECTIONS holds an entry for a connection if and only if
\* the connection's handler is running (registered, finally block not yet
\* executed); the entry is the handler's history; every open connection has
\* an entry, and an entry outlives the closing of its socket only until its
\* handler reaches the finally block, so the number of entries equals the
\* number of running handlers and is never below the number of open
\* connections.
C1_EntryIffHandlerRunning ==
    /\ \A c \in Conns :
          /\ (c \in DOMAIN CONNECTIONS) <=> Running(c)
          /\ c \in DOMAIN CONNECTIONS => CONNECTIONS[c] = history[c]
          /\ state[c] = "OPEN" => c \in DOMAIN CONNECTIONS
    /\ Cardinality(DOMAIN CONNECTIONS) = Cardinality({c \in Conns : Running(c)})
    /\ Cardinality(DOMAIN CONNECTIONS) >= Cardinality({c \in Conns : state[c] = "OPEN"})

\* One connection closed while its message was being processed and is gone
\* from the store; the other is still registered, its socket already closed.
C1_Witness ==
    \E a, b \in Conns :
        /\ a # b
        /\ pc[a] = "done" /\ ex[a] = ConnectionClosed /\ a \notin DOMAIN CONNECTIONS
        /\ state[b] = "CLOSED" /\ pc[b] = "recv" /\ b \in DOMAIN CONNECTIONS

C3_FailureState ==
    \A c \in Conns :
        /\ (pc[c] = "senderror" /\ ex[c] = AgentError)
              => /\ Valid(msg[c])
                 /\ history[c] = before[c]
                 /\ c \in DOMAIN CONNECTIONS /\ CONNECTIONS[c] = before[c]
                 /\ CountType(c, "agent") + CountType(c, "error")
                       = Cardinality({k \in 1..(Len(received[c]) - 1) :
                                          ~EmptyText(received[c][k])})
        /\ (pc[c] = "recv" /\ received[c] # <<>> /\ Valid(msg[c])
               /\ Last(results[c]) = AgentError)
              => /\ history[c] = before[c]
                 /\ c \in DOMAIN CONNECTIONS /\ CONNECTIONS[c] = before[c]
                 /\ Last(outbox[c]) = ErrorEnvelope(AgentError)
                 /\ CountType(c, "agent") + CountType(c, "error")
                       = Cardinality({k \in 1..Len(received[c]) :
                                          ~EmptyText(received[c][k])})
        /\ (pc[c] = "recv" /\ received[c] # <<>> /\ Valid(msg[c])
               /\ Last(results[c]) \in Replies
               /\ \E k \in 1..(Len(results[c]) - 1) : results[c][k] = AgentError)
              => /\ history[c] = before[c] \o
                        <<HumanMessage(strip(msg[c].text)), AIMessage(Last(results[c]))>>
                 /\ CONNECTIONS[c] = history[c]
                 /\ Last(outbox[c]) = Envelope("agent", Last(results[c]))
                 /\ CountType(c, "agent") + CountType(c, "error")
                       = Cardinality({k \in 1..Len(received[c]) :
                                          ~EmptyText(received[c][k])})

C3_FailureSteps ==
    \A c \in Conns :
        \* the agent call ends in failure
        /\ (pc[c] = "invoking" /\ results'[c] = Append(results[c], AgentError))
              => /\ pc'[c] = "senderror" /\ ex'[c] = AgentError
                 /\ history'[c] = before[c]
                 /\ outbox'[c] = outbox[c]
                 /\ CONNECTIONS' = CONNECTIONS
        \* the handler's next step reports it and returns to the loop
        /\ (pc[c] = "senderror" /\ ex[c] = AgentError /\ state[c] = "OPEN"
               /\ pc'[c] # pc[c])
              => /\ pc'[c] = "recv"
                 /\ outbox'[c] = Append(outbox[c], ErrorEnvelope(AgentError))
                 /\ history'[c] = before[c]
                 /\ state'[c] = "OPEN"
                 /\ CONNECTIONS' = CONNECTIONS
        \* a later agent call that succeeds appends the two turns ...
        /\ (pc[c] = "invoking" /\ results'[c] # results[c]
               /\ Last(results'[c]) \in Replies)
              => /\ pc'[c] = "sendagent"
                 /\ history'[c] = before[c] \o
                        <<HumanMessage(strip(msg[c].text)), AIMessage(Last(results'[c]))>>
                 /\ CONNECTIONS'[c] = history'[c]
        \* ... and is answered with the agent envelope
        /\ (pc[c] = "sendagent" /\ state[c] = "OPEN" /\ pc'[c] # pc[c])
              => /\ pc'[c] = "recv"
                 /\ outbox'[c] = Append(outbox[c], Envelope("agent", Last(results[c])))
                 /\ history'[c] = history[c]

C3_AgentFailureReported == []C3_FailureState /\ [][C3_FailureSteps]_vars

\* The first frame's agent call failed and was reported; the second frame,
\* on the same connection, was then processed normally.
C3_Witness ==
    \E c \in Conns :
        /\ pc[c] = "recv" /\ state[c] = "OPEN"
        /\ results[c] = <<AgentError, <<"r", "1">> >>
        /\ outbox[c] = <<Envelope("system", SystemText), ErrorEnvelope(AgentError),
                         Envelope("agent", <<"r", "1">>)>>
        /\ history[c] = <<HumanMessage(<<"h", "i">>), AIMessage(<<"r", "1">>)>>
        /\ CONNECTIONS[c] = history[c]

\* ---- C4 ----------------------------------------------------------------
\* C4: when a step of the processing of a valid frame fails - the agent
\* call, or the sending of the agent envelope after the agent call
\* succeeded - no turn has been appended for that frame (the history and the
\* store entry are what they were before the frame), and the handler does
\* not end because of it.
C4_NoTurnOnAnyFailure ==
    \A c \in Conns :
        /\ (pc[c] = "senderror" /\ Valid(msg[c]) /\ ex[c] = AgentError)
              => history[c] = before[c]
        /\ ex[c] = ConnectionClosed
              => /\ Valid(msg[c])
                 /\ history[c] = before[c]
                 /\ pc[c] # "done"

\* ---- C5 ----------------------------------------------------------------
\* C5: on a connection where n valid frames and no others were processed,
\* all successfully, the history holds exactly 2n turns - for the k-th
\* frame its trimmed text as a user turn, then the agent's k-th answer as an
\* assistant turn - and exactly n agent envelopes were sent, the k-th
\* carrying the k-th assistant turn's text.
C5_TurnsMatchFrames ==
    \A c \in Conns :
        (/\ pc[c] = "recv"
         /\ \A k \in DOMAIN received[c] : Valid(received[c][k])
         /\ \A k \in DOMAIN results[c] : results[c][k] \in Replies)
           => LET n == Len(received[c]) IN
              /\ Len(results[c]) = n
              /\ Len(history[c]) = 2 * n
              /\ \A k \in 1..n :
                    /\ history[c][2 * k - 1] = HumanMessage(strip(received[c][k].text))
                    /\ history[c][2 * k] = AIMessage(results[c][k])
              /\ Len(outbox[c]) = n + 1
              /\ \A k \in 1..n :
                    outbox[c][k + 1] = Envelope("agent", history[c][2 * k].content)

\* Two frames, " hi " and "yo", were answered r2 and r1 on one connection.
C5_Witness ==
    \E c \in Conns :
        /\ pc[c] = "recv"
        /\ received[c] = <<TextMsg(<<" ", "h", "i", " ">>), TextMsg(<<"y", "o">>)>>
        /\ history[c] = <<HumanMessage(<<"h", "i">>), AIMessage(<<"r", "2">>),
                          HumanMessage(<<"y", "o">>), AIMessage(<<"r", "1">>)>>
        /\ outbox[c] = <<Envelope("system", SystemText), Envelope("agent", <<"r", "2">>),
                         Envelope("agent", <<"r", "1">>)>>


\* ---- C6 ----------------------------------------------------------------
\* C6: while the agent call of one connection is outstanding, the handler
\* of every other connection can take the step it stands at: start, send
\* the system envelope, take a queued frame, send an envelope, clean up.
C6_OthersCanStep ==
    \A a, b \in Conns :
        (a # b /\ pc[a] = "invoking")
           => /\ pc[b] = "idle" => ENABLED HandlerStart(b)
              /\ pc[b] = "sendsys" => ENABLED SendSystem(b)
              /\ (pc[b] = "recv" /\ inbox[b] # <<>>) => ENABLED Receive(b)
              /\ pc[b] = "sendagent" => ENABLED SendAgent(b)
              /\ pc[b] = "senderror" => ENABLED SendError(b)
              /\ (pc[b] = "recv" /\ inbox[b] = <<>> /\ state[b] = "CLOSED")
                    => ENABLED RecvClosed(b)

\* ---- C7 ----------------------------------------------------------------
\* C7: a handler that has ended, by whatever path, has removed its store
\* entry; the entry is removed exactly once, at the end of the handler and
\* not before, and once removed it is never in the store again.
C7_CleanupOnEveryPath ==
    \A c \in Conns :
        /\ removals[c] <= 1
        /\ pc[c] = "done" <=> removals[c] = 1
        /\ removals[c] = 1 => c \notin DOMAIN CONNECTIONS
        /\ pc[c] = "done" => c \notin DOMAIN CONNECTIONS

\* One handler ended through the error send failing after the agent
\* envelope could not be sent, the other through the system send failing.
C7_Witness ==
    \E a, b \in Conns :
        /\ a # b
        /\ pc[a] = "done" /\ ex[a] = ConnectionClosed /\ Len(history[a]) = 2
        /\ pc[b] = "done" /\ outbox[b] = <<>>
        /\ removals[a] = 1 /\ removals[b] = 1
        /\ CONNECTIONS = NoEntries

\* ---- C8 ----------------------------------------------------------------
\* C8: a connection never carries more than one system envelope, and that
\* one is the first envelope on it, so it precedes every agent and error
\* envelope; it is sent when the session is registered and no frame has been
\* taken; every handler that got past line 120 (is in, or has left, the
\* receive loop) has sent exactly one.
C8_OneSystemEnvelopeFirst ==
    \A c \in Conns :
        /\ CountType(c, "system") <= 1
        /\ \A k \in DOMAIN outbox[c] : (outbox[c][k].type = "system") <=> (k = 1)
        /\ outbox[c] # <<>> => outbox[c][1] = Envelope("system", SystemText)
        /\ pc[c] = "idle" => outbox[c] = <<>>
        /\ pc[c] = "sendsys"
              => outbox[c] = <<>> /\ c \in DOMAIN CONNECTIONS /\ received[c] = <<>>
        /\ pc[c] \in {"recv", "invoking", "sendagent", "senderror"}
              => CountType(c, "system") = 1
        /\ received[c] # <<>> => CountType(c, "system") = 1
        /\ (pc[c] = "done" /\ outbox[c] = <<>>) => received[c] = <<>>

\* A connection whose system envelope was followed by an error and an agent
\* envelope.
C8_Witness ==
    \E c \in Conns :
        /\ Len(outbox[c]) = 3
        /\ outbox[c][1].type = "system"
        /\ outbox[c][2].type = "error"
        /\ outbox[c][3].type = "agent"

\* ---- C9 ----------------------------------------------------------------
\* C9: nothing is retried.  The agent is called only in the step that takes
\* a new frame from the client, and once; so the number of agent calls never
\* exceeds the number of frames taken, and equals the number of valid ones.
\* Every frame taken is answered with at most one envelope, agent or error.
C9_NoRetry ==
    /\ [](\A c \in Conns :
            /\ Len(calls[c]) = Cardinality({k \in DOMAIN received[c] : Valid(received[c][k])})
            /\ Len(results[c]) = Len(calls[c]) - (IF pc[c] = "invoking" THEN 1 ELSE 0)
            /\ CountType(c, "agent") + CountType(c, "error")
                  <= Len(received[c]) - (IF Processing(c) THEN 1 ELSE 0)
            /\ CountType(c, "agent") <= Cardinality({k \in DOMAIN results[c] :
                                                      results[c][k] \in Replies}))
    /\ [][\A c \in Conns :
            /\ calls'[c] # calls[c]
                  => /\ Len(received'[c]) = Len(received[c]) + 1
                     /\ Len(calls'[c]) = Len(calls[c]) + 1
            /\ Len(outbox'[c]) <= Len(outbox[c]) + 1
            /\ (outbox'[c] # outbox[c] /\ pc[c] # "sendsys")
                  => Processing(c) /\ pc'[c] = "recv"]_vars

\* A frame whose agent call failed: one call, one error envelope, and the
\* handler waiting for the next frame.
C9_Witness ==
    \E c \in Conns :
        /\ pc[c] = "recv" /\ state[c] = "OPEN" /\ inbox[c] = <<>>
        /\ Len(received[c]) = 1 /\ Len(calls[c]) = 1
        /\ results[c] = <<AgentError>>
        /\ outbox[c] = <<Envelope("system", SystemText), ErrorEnvelope(AgentError)>>

\* ---- C10 ---------------------------------------------------------------
GenValid(in) ==
    /\ in.first_names # <<>> /\ in.last_names # <<>> /\ in.domains # <<>>
    /\ 0 <= in.min_age /\ in.min_age <= in.max_age

\* C10: for valid arguments generate_sample_users returns users and count
\* with count = len(users) = len(first_names), and the record at position i
\* (0-based) has id i+1, firstName first_names[i], lastName
\* last_names[i mod len(last_names)], email lowercase(first) "."
\* lowercase(last) "@" domains[i mod len(domains)] and an age within
\* [min_age, max_age], whatever the random draws.
C10_RecordsFollowPairing ==
    (g_pc = "returned" /\ GenValid(g_in))
       => /\ DOMAIN g_ret = {"users", "count"}
          /\ g_ret.count = Len(g_ret.users)
          /\ g_ret.count = Len(g_in.first_names)
          /\ \A i \in 0..(Len(g_in.first_names) - 1) :
                LET u == g_ret.users[i + 1]
                    f == g_in.first_names[i + 1]
                    l == g_in.last_names[(i % Len(g_in.last_names)) + 1]
                    d == g_in.domains[(i % Len(g_in.domains)) + 1]
                IN /\ u.id = i + 1
                   /\ u.firstName = f
                   /\ u.lastName = l
                   /\ u.email = lower(f) \o <<".">> \o lower(l) \o <<"@">> \o d
                   /\ u.age >= g_in.min_age /\ u.age <= g_in.max_age

\* Three first names over two last names and two domains: the third record
\* wraps around to the first last name and the first domain.
C10_Witness ==
    /\ g_pc = "returned" /\ GenValid(g_in)
    /\ Len(g_in.first_names) = 3 /\ Len(g_in.last_names) = 2 /\ Len(g_in.domains) = 2
    /\ g_in.min_age = 0 /\ g_in.max_age = 1
    /\ g_ret.count = 3
    /\ g_ret.users[3].id = 3
    /\ g_ret.users[3].firstName = <<"A", "l", "l">>
    /\ g_ret.users[3].lastName = <<"X", "u">>
    /\ g_ret.users[3].email = <<"a", "l", "l", ".", "x", "u", "@", "d", ".", "C", "o">>
    /\ g_ret.users[2].email = <<"b", "o", "l", ".", "y", "e", "e", "@", "e", ".", "i", "o">>
    /\ g_ret.users[1].age = 0 /\ g_ret.users[2].age = 1


\* ---- C11 ---------------------------------------------------------------
\* The preconditions of generate_sample_users that the arguments violate.
GenViolated(in) ==
    {p \in {"first_names", "last_names", "domains", "order", "non_negative"} :
        \/ p = "first_names" /\ in.first_names = <<>>
        \/ p = "last_names" /\ in.last_names = <<>>
        \/ p = "domains" /\ in.domains = <<>>
        \/ p = "order" /\ in.min_age > in.max_age
        \/ p = "non_negative" /\ (in.min_age < 0 \/ in.max_age < 0)}

\* The error text that belongs to each precondition.
GenErrorText(p, in) ==
    CASE p = "first_names" -> <<"first_names list cannot be empty">>
      [] p = "last_names" -> <<"last_names list cannot be empty">>
      [] p = "domains" -> <<"domains list cannot be empty">>
      [] p = "order" -> <<"min_age (", ToString(in.min_age),
                          ") cannot be greater than max_age (", ToString(in.max_age), ")">>
      [] p = "non_negative" -> <<"ages must be non-negative">>

\* C11: for arguments that violate a precondition, generate_sample_users
\* returns an object with an error field and no users field; the error is
\* the text of one of the violated preconditions, so arguments violating
\* exactly one precondition get that precondition's text; and the five
\* texts are pairwise distinct.
C11_ErrorPerPrecondition ==
    (g_pc = "returned" /\ GenViolated(g_in) # {})
       => /\ DOMAIN g_ret = {"error"}
          /\ \E p \in GenViolated(g_in) : g_ret.error = GenErrorText(p, g_in)
          /\ \A p \in GenViolated(g_in) :
                GenViolated(g_in) = {p} => g_ret.error = GenErrorText(p, g_in)
          /\ \A p, q \in {"first_names", "last_names", "domains", "order", "non_negative"} :
                p # q => GenErrorText(p, g_in) # GenErrorText(q, g_in)

\* Arguments whose only fault is a negative min_age were refused with the
\* text of that precondition.
C11_Witness ==
    /\ g_pc = "returned"
    /\ GenViolated(g_in) = {"non_negative"}
    /\ g_in.min_age = -1 /\ g_in.max_age = 0
    /\ g_ret = [error |-> <<"ages must be non-negative">>]


\* ---- C14 ---------------------------------------------------------------
\* The frames taken so far that are not skipped, in the order taken.
NotSkipped(m) == ~EmptyText(m)
Answerable(c) == SelectSeq(received[c], NotSkipped)

\* The envelope that answers the j-th answerable frame: the k-th valid frame
\* is answered from the k-th agent call.
AnswerTo(c, j) ==
    LET m == Answerable(c)[j]
        k == Cardinality({i \in 1..j : Valid(Answerable(c)[i])})
    IN IF m.shape = "invalid" THEN ErrorEnvelope(<<"JSONDecodeError">>)
       ELSE IF Malformed(m) THEN ErrorEnvelope(<<"AttributeError">>)
       ELSE IF results[c][k] \in Replies THEN Envelope("agent", results[c][k])
       ELSE ErrorEnvelope(results[c][k])

C14_SerialState ==
    \A c \in Conns :
        \* at most one agent call outstanding, and only in the middle of a frame
        /\ Len(calls[c]) - Len(results[c]) \in {0, 1}
        /\ Len(calls[c]) - Len(results[c]) = 1 <=> pc[c] = "invoking"
        \* the envelopes after the system envelope answer the frames in order
        /\ Len(outbox[c]) - 1 <= Len(Answerable(c))
        /\ \A j \in 1..(Len(outbox[c]) - 1) : outbox[c][j + 1] = AnswerTo(c, j)
        \* between two frames nothing is left unanswered
        /\ pc[c] = "recv" => Len(outbox[c]) - 1 = Len(Answerable(c))

C14_SerialSteps ==
    \A c \in Conns :
        \* a frame is taken only when the previous one is finished, and it is
        \* the oldest one queued
        /\ received'[c] # received[c]
              => /\ pc[c] = "recv"
                 /\ Len(outbox[c]) - 1 = Len(Answerable(c))
                 /\ inbox[c] # <<>>
                 /\ received'[c] = Append(received[c], Head(inbox[c]))
                 /\ inbox'[c] = Tail(inbox[c])
        \* a frame that arrives queues behind the ones waiting
        /\ (inbox'[c] # inbox[c] /\ received'[c] = received[c])
              => \E m \in Msgs : inbox'[c] = Append(inbox[c], m)

\* C14: per connection, processing is serial and in arrival order: at most
\* one agent call is outstanding, the next frame is taken (the oldest queued)
\* only when the previous one is finished, and the envelopes sent answer the
\* frames in the order in which they came.
C14_SerialInOrder == []C14_SerialState /\ [][C14_SerialSteps]_vars

\* Two frames were queued together; the malformed one, which came first,
\* was answered first.
C14_Witness ==
    \E c \in Conns :
        /\ pc[c] = "recv"
        /\ received[c] = <<NonString, TextMsg(<<"y", "o">>)>>
        /\ results[c] = << <<"r", "2">> >>
        /\ outbox[c] = <<Envelope("system", SystemText),
                         ErrorEnvelope(<<"AttributeError">>),
                         Envelope("agent", <<"r", "2">>)>>


\* ---- C15 ---------------------------------------------------------------
\* The turns a connection owns after its first n agent calls: for each call
\* that returned, the trimmed text of the valid frame that caused it and the
\* agent's answer to it.
RECURSIVE OwnTurns(_, _)
OwnTurns(c, n) ==
    IF n = 0 THEN <<>>
    ELSE LET m == SelectSeq(received[c], Valid)[n]
         IN OwnTurns(c, n - 1) \o
               (IF results[c][n] \in Replies
                THEN <<HumanMessage(strip(m.text)), AIMessage(results[c][n])>>
                ELSE <<>>)

C15_OwnState ==
    \A c \in Conns :
        /\ history[c] = OwnTurns(c, Len(results[c]))
        /\ c \in DOMAIN CONNECTIONS => CONNECTIONS[c] = history[c]
        /\ \A k \in DOMAIN calls[c] :
              calls[c][k] = OwnTurns(c, k - 1) \o
                  <<HumanMessage(strip(SelectSeq(received[c], Valid)[k].text)
                                    \o <<"\n", " ", "/no_think">>)>>

C15_OwnSteps ==
    \A a, b \in Conns :
        (a # b /\ (pc'[a] # pc[a] \/ received'[a] # received[a]))
           => /\ history'[b] = history[b]
              /\ (b \in DOMAIN CONNECTIONS') <=> (b \in DOMAIN CONNECTIONS)
              /\ b \in DOMAIN CONNECTIONS => CONNECTIONS'[b] = CONNECTIONS[b]

\* C15: sessions are isolated.  A step of one connection's handler
\* (register, take a frame, agent call, append, send, clean up) leaves the
\* store entry and the history of every other connection as they were; a
\* connection's history, its store entry and the messages handed to its
\* agent calls are made of its own frames and its own agent answers only.
C15_SessionsIsolated == []C15_OwnState /\ [][C15_OwnSteps]_vars

\* Two registered connections with different conversations.
C15_Witness ==
    /\ DOMAIN CONNECTIONS = Conns
    /\ CONNECTIONS["A"] = <<HumanMessage(<<"h", "i">>), AIMessage(<<"r", "1">>)>>
    /\ CONNECTIONS["B"] = <<HumanMessage(<<"y", "o">>), AIMessage(<<"r", "2">>)>>
    /\ pc["A"] = "recv" /\ pc["B"] = "sendagent"


\* ---- C16 ---------------------------------------------------------------
IsPrefix(s, t) == Len(s) <= Len(t) /\ SubSeq(t, 1, Len(s)) = s

\* C16: a connection's history is append-only: in every step the history,
\* and the store entry while it exists, keep what they held as a prefix of
\* what they hold afterwards; the entry appears empty when the handler
\* registers and disappears, whole, only in the step that ends the handler.
C16_AppendOnly ==
    [][\A c \in Conns :
          /\ IsPrefix(history[c], history'[c])
          /\ (c \in DOMAIN CONNECTIONS /\ c \in DOMAIN CONNECTIONS')
                => IsPrefix(CONNECTIONS[c], CONNECTIONS'[c])
          /\ (c \in DOMAIN CONNECTIONS /\ c \notin DOMAIN CONNECTIONS')
                => pc[c] # "done" /\ pc'[c] = "done"
          /\ (c \notin DOMAIN CONNECTIONS /\ c \in DOMAIN CONNECTIONS')
                => pc[c] = "idle" /\ CONNECTIONS'[c] = <<>>]_vars

\* A history that grew twice and whose entry was then discarded at close.
C16_Witness ==
    \E c \in Conns :
        /\ pc[c] = "done"
        /\ Len(history[c]) = 4
        /\ history[c][1] # history[c][3]
        /\ c \notin DOMAIN CONNECTIONS


\* ---- C17 ---------------------------------------------------------------
\* C17: in every reachable state a history has even length and alternates
\* user turn, assistant turn, starting with a user turn; the turns are
\* appended two at a time; and the agent envelopes sent on the connection
\* are never more than half the history's length, since the pair is
\* appended before its envelope is sent.
C17_PairsState ==
    \A c \in Conns :
        /\ Len(history[c]) % 2 = 0
        /\ \A k \in DOMAIN history[c] :
              history[c][k].role = (IF k % 2 = 1 THEN "human" ELSE "ai")
        /\ 2 * CountType(c, "agent") <= Len(history[c])
        /\ pc[c] = "sendagent" => 2 * CountType(c, "agent") < Len(history[c])

C17_PairsSteps ==
    \A c \in Conns :
        history'[c] # history[c] => Len(history'[c]) = Len(history[c]) + 2

C17_AlternatingPairs == []C17_PairsState /\ [][C17_PairsSteps]_vars

\* The pair of a second exchange is in the history while its agent envelope
\* is still to be sent.
C17_Witness ==
    \E c \in Conns :
        /\ pc[c] = "sendagent"
        /\ Len(history[c]) = 4
        /\ CountType(c, "agent") = 1


\* ------------------------------------------------------------ C12
\* What read_json returned, read back as data.
Denoted(text) == Loads(text)

\* C12: once write_json(p, d) has succeeded, the file at p holds a text
\* that denotes d and nothing else, whatever was at p before, and a
\* read_json(p) returns a text that denotes data equal to d, the d of the
\* last write to p.
C12_RoundTripLastWrite ==
    \A p \in Paths :
        f_written[p].set =>
            /\ fs[p].kind = "file"
            /\ Loads(fs[p].content).ok
            /\ Loads(fs[p].content).v = f_written[p].data
            /\ (f_op = [tool |-> "read_json", path |-> p] =>
                    /\ Denoted(f_ret).ok
                    /\ Denoted(f_ret).v = f_written[p].data)

\* A read that returned the nested data with quote, backslash, newline and
\* non-ASCII characters, written over a file that held other content.
C12_Witness ==
    \E p \in Paths :
        /\ f_op = [tool |-> "read_json", path |-> p]
        /\ f_written[p].set
        /\ f_written[p].data = DocRich
        /\ f_written[p].old.kind = "file"
        /\ f_written[p].old.content # <<>>
        /\ Denoted(f_ret).ok
        /\ Denoted(f_ret).v = DocRich
        /\ f_ret # fs[p].content

\* ------------------------------------------------------------ C13
ErrorHeads == {NotFoundHead, InvalidJsonHead, ReadErrorHead}

\* The outcome classes a caller can tell from the returned text.
OutcomeClasses(text) ==
    {h \in ErrorHeads : IsPrefix(h, text)}
    \cup (IF Loads(text).ok THEN {<<"content">>} ELSE {})

\* The file holds something that is not a JSON text.
InvalidJsonContent(f) ==
    f.kind = "file" /\ ~(Decodable(f.content) /\ Loads(f.content).ok)

\* C13: read_json returns a string in every file state: the "not found"
\* string on a nonexistent path, the "invalid JSON" string on a file whose
\* content is not valid JSON, the generic read-error string on any other
\* failure, and the returned text belongs to exactly one of the four
\* outcome classes.
C13_ThreeDistinctErrors ==
    f_op.tool = "read_json" =>
        LET f == fs[f_op.path]
        IN /\ f_ret \in Seq(STRING)
           /\ Cardinality(OutcomeClasses(f_ret)) = 1
           /\ (f.kind = "absent" => OutcomeClasses(f_ret) = {NotFoundHead})
           /\ (InvalidJsonContent(f) => OutcomeClasses(f_ret) = {InvalidJsonHead})
           /\ (f.kind = "dir" => OutcomeClasses(f_ret) = {ReadErrorHead})
           /\ (f.kind = "file" /\ ~InvalidJsonContent(f) =>
                   OutcomeClasses(f_ret) = {<<"content">>})

====
